---- MODULE Spec2Model ----
(***************************************************************************)
(* Model of the byte-level BPE tokenizer of rust_tokenizer/src/lib.rs:     *)
(* the incremental trainer (train_core, Word::merge_pair, the lazy         *)
(* MergeJob heap) and the encoder (encode, encode_batch, load_merges,      *)
(* register_special_token, the GPT-4 pretokenizer pattern).                *)
(*                                                                         *)
(* Symbol ids are u32.  TLC's integers are 31 bits wide, so ids are kept   *)
(* under an order-preserving embedding: every id the model builds (bytes,  *)
(* 256 + k, the ids loaded by load_merges) stands for itself, and          *)
(* u32::MAX is the top element U32_MAX.  The code only compares ids        *)
(* (==, <), which the embedding preserves.                                 *)
(***************************************************************************)
EXTENDS Integers, Sequences, FiniteSets, Bags, TLC

\* ------------------------------------------------------------------ bounds
MaxWordLen == 4      \* longest training word (ids)
MaxCount   == 2      \* largest multiplicity of a training word
MaxMerges  == 3      \* vocab_size ranges over 255 .. BASE_VOCAB + MaxMerges
MaxTableSize == 1    \* entries of a table given to load_merges
MaxChunkWords == 4   \* longest word array given to the chunked count
MaxChunkSize == 3    \* largest chunk size of the chunked count

\* --------------------------------------------------------------- constants
BASE_VOCAB == 256                 \* ids 0..255 are the raw bytes
MIN_PARALLEL_WORK == 1000
PARALLEL_CHUNK_SIZE == 256
BATCH_PARALLEL_MIN == 100         \* encode_batch: `texts.len() < 100`
U32_MAX == 2147483647             \* u32::MAX under the embedding of the ids
NumThreads == 2                   \* rayon::current_num_threads()

\* the bytes training words are drawn from: 'a', 'b'
TrainBytes == {97, 98}

\* ------------------------------------------------------------- state
VARIABLES
    merges,          \* Tokenizer.merges: function Pair -> id
    special_tokens,  \* Tokenizer.special_tokens: function text -> id
    pc,              \* position of train_core: idle, loop, done, panicked
    corpus,          \* train_core argument `words` as passed in
    words,           \* train_core local `words` (mutated in place)
    counts,          \* train_core argument `counts`
    num_merges,      \* train_core local
    vocab_arg,       \* train_core argument `vocab_size`
    pair_counts,     \* train_core local: function Pair -> i32
    heap,            \* train_core local: bag of MergeJob
    merges_done,     \* train_core local
    last,            \* the loop iteration just taken (observation of the step)
    enc,             \* the encode calls in progress, one record per caller
    bt,              \* the encode_batch call in progress
    rt,              \* the round trip get_merges -> fresh tokenizer -> load_merges
    cp,              \* the count_pairs_parallel call in progress
    overflow_checks  \* the build's overflow-checks setting, once an i32 `+=` met it

\* the locals of train_core
train_locals == <<pc, corpus, words, counts, num_merges, vocab_arg, pair_counts,
                  heap, merges_done, last>>

vars == <<merges, special_tokens, pc, corpus, words, counts, num_merges,
           vocab_arg, pair_counts, heap, merges_done, last, enc, bt, rt, cp,
           overflow_checks>>

\* ------------------------------------------------------------- helpers
Empty == <<>>

\* i32, the type of the word multiplicities and of the values of pair_counts
I32_MAX == 2147483647

\* x + d leaves the range of i32
i32_overflows(x, d) ==
    \/ d > 0 /\ x > I32_MAX - d
    \/ d < 0 /\ x < (-I32_MAX - 1) - d

\* x + d on i32 without overflow checks: the sum modulo 2^32, in two halves
\* that stay inside the range
i32_wrapping_add(x, d) ==
    IF d > 0 /\ x > I32_MAX - d THEN (x - I32_MAX - 1) + (d - I32_MAX - 1)
    ELSE IF d < 0 /\ x < (-I32_MAX - 1) - d THEN (x + I32_MAX + 1) + (d + I32_MAX + 1)
    ELSE x + d

\* map.entry(k).or_insert(0) += d
AddEntry_overwrites(m, k, d) ==
    IF k \in DOMAIN m THEN [m EXCEPT ![k] = d] ELSE m @@ (k :> d)
AddEntry(m, k, d) ==
    IF k \in DOMAIN m THEN [m EXCEPT ![k] = i32_wrapping_add(@, d)] ELSE m @@ (k :> d)

\* the `+=` of map.entry(k).or_insert(0) += d overflows
AddOverflows(m, k, d) == k \in DOMAIN m /\ i32_overflows(m[k], d)

\* map.entry(k).or_insert_with(AHashSet::new).insert(i)
InsertPos_overwrites(m, k, i) ==
    IF k \in DOMAIN m THEN [m EXCEPT ![k] = {i}] ELSE m @@ (k :> {i})
InsertPos(m, k, i) ==
    IF k \in DOMAIN m THEN [m EXCEPT ![k] = @ \cup {i}] ELSE m @@ (k :> {i})

\* map.get(k).copied().unwrap_or(0)
GetOr0(m, k) == IF k \in DOMAIN m THEN m[k] ELSE 0

\* Word::pairs: ids.windows(2)
pairs(ids) == [i \in 1 .. (IF Len(ids) >= 2 THEN Len(ids) - 1 ELSE 0)
                  |-> <<ids[i], ids[i + 1]>>]

\* derived Ord of the tuple (u32, u32)
PairLess(p, q) == p[1] < q[1] \/ (p[1] = q[1] /\ p[2] < q[2])

\* ------------------------------------------------------ Word::merge_pair
\* the while loop of merge_pair; i is the 1-based scan index
\* the loop with `i += 1` after a merge: the second id of the pair is reused
RECURSIVE merge_pair_loop_reuses_second(_, _, _, _, _, _)
merge_pair_loop_reuses_second(ids, pair, new_id, i, out, deltas) ==
    IF i > Len(ids) THEN [ids |-> out, deltas |-> deltas]
    ELSE IF i + 1 <= Len(ids) /\ ids[i] = pair[1] /\ ids[i + 1] = pair[2]
    THEN merge_pair_loop_reuses_second(ids, pair, new_id, i + 1, Append(out, new_id),
                                       Append(deltas, <<pair, -1>>))
    ELSE merge_pair_loop_reuses_second(ids, pair, new_id, i + 1, Append(out, ids[i]),
                                       deltas)
RECURSIVE merge_pair_loop(_, _, _, _, _, _)
merge_pair_loop(ids, pair, new_id, i, out, deltas) ==
    LET n == Len(ids)
        a == pair[1]
        b == pair[2]
    IN  IF i > n THEN [ids |-> out, deltas |-> deltas]
        ELSE IF i + 1 <= n /\ ids[i] = a /\ ids[i + 1] = b
        THEN LET left  == IF Len(out) > 0
                          THEN << <<(<<out[Len(out)], a>>), -1>>,
                                  <<(<<out[Len(out)], new_id>>), 1>> >>
                          ELSE <<>>
                 mid   == << <<(<<a, b>>), -1>> >>
                 right == IF i + 2 <= n
                          THEN << <<(<<b, ids[i + 2]>>), -1>>,
                                  <<(<<new_id, ids[i + 2]>>), 1>> >>
                          ELSE <<>>
             IN  merge_pair_loop(ids, pair, new_id, i + 2,
                                 Append(out, new_id),
                                 deltas \o left \o mid \o right)
        ELSE merge_pair_loop(ids, pair, new_id, i + 1,
                             Append(out, ids[i]), deltas)

merge_pair(ids, pair, new_id) ==
    IF Len(ids) < 2 THEN [ids |-> ids, deltas |-> <<>>]
    ELSE merge_pair_loop(ids, pair, new_id, 1, <<>>, <<>>)

\* --------------------------------------------------- initial pair counting
\* the inner `for pair in w.pairs()` of the counting loops, for word index i
RECURSIVE count_word(_, _, _, _, _)
count_word(acc, ps, j, i, c) ==
    IF j > Len(ps) THEN acc
    ELSE count_word([pc  |-> AddEntry(acc.pc, ps[j], c),
                     wtu |-> InsertPos(acc.wtu, ps[j], i),
                     ovf |-> acc.ovf \/ AddOverflows(acc.pc, ps[j], c)],
                    ps, j + 1, i, c)

\* the loop over the words lo..hi (global word indices) into fresh maps
RECURSIVE count_range(_, _, _, _, _)
count_range(acc, ws, cs, i, hi) ==
    IF i > hi THEN acc
    ELSE count_range(IF Len(ws[i]) >= 2 /\ cs[i] # 0
                     THEN count_word(acc, pairs(ws[i]), 1, i, cs[i])
                     ELSE acc,
                     ws, cs, i + 1, hi)

\* ovf: some `+=` into pc has overflowed
NoMaps == [pc |-> Empty, wtu |-> Empty, ovf |-> FALSE]

count_pairs_sequential(ws, cs) == count_range(NoMaps, ws, cs, 1, Len(ws))

\* the reduce closure: sum the counts, union the position sets
RECURSIVE reduce_keys(_, _, _)
reduce_keys(acc, m, ks) ==
    IF ks = {} THEN acc
    ELSE LET k == CHOOSE x \in ks : TRUE
         IN  reduce_keys([pc  |-> AddEntry(acc.pc, k, m.pc[k]),
                          wtu |-> IF k \in DOMAIN acc.wtu
                                  THEN [acc.wtu EXCEPT ![k] = @ \cup m.wtu[k]]
                                  ELSE acc.wtu @@ (k :> m.wtu[k]),
                          ovf |-> acc.ovf \/ AddOverflows(acc.pc, k, m.pc[k])],
                         m, ks \ {k})

\* the reduce closure with `or_insert(v)` in place of `or_insert(0) += v`
reduce_maps_keeps_existing(acc, m) ==
    [pc  |-> [k \in DOMAIN acc.pc \cup DOMAIN m.pc |->
                 IF k \in DOMAIN acc.pc THEN acc.pc[k] ELSE m.pc[k]],
     wtu |-> [k \in DOMAIN acc.wtu \cup DOMAIN m.wtu |->
                 (IF k \in DOMAIN acc.wtu THEN acc.wtu[k] ELSE {})
                     \cup (IF k \in DOMAIN m.wtu THEN m.wtu[k] ELSE {})],
     ovf |-> acc.ovf \/ m.ovf]
reduce_maps(acc, m) ==
    reduce_keys([acc EXCEPT !.ovf = @ \/ m.ovf], m, DOMAIN m.pc)

\* par_chunks(chunk_size).enumerate().map(..).reduce(..), chunks taken in order
RECURSIVE count_chunks(_, _, _, _, _)
count_chunks(acc, ws, cs, chunk_idx, chunk_size) ==
    LET base == chunk_idx * chunk_size
        hi   == IF base + chunk_size < Len(ws) THEN base + chunk_size ELSE Len(ws)
    IN  IF base >= Len(ws) THEN acc
        ELSE count_chunks(reduce_maps(acc, count_range(NoMaps, ws, cs, base + 1, hi)),
                          ws, cs, chunk_idx + 1, chunk_size)

count_pairs_parallel(ws, cs) ==
    IF Len(ws) < MIN_PARALLEL_WORK THEN count_pairs_sequential(ws, cs)
    ELSE LET q == Len(ws) \div (NumThreads * 4)
             chunk_size == IF q > PARALLEL_CHUNK_SIZE THEN q ELSE PARALLEL_CHUNK_SIZE
         IN  count_chunks(NoMaps, ws, cs, 0, chunk_size)

\* ------------------------------------------------------------- MergeJob
\* Ord for MergeJob: by count, ties by the pair reversed
JobLess_smallest_count_first(x, y) ==
    y.count < x.count \/ (x.count = y.count /\ PairLess(y.pair, x.pair))
JobLess_ties_not_reversed(x, y) ==
    x.count < y.count \/ (x.count = y.count /\ PairLess(x.pair, y.pair))
JobLess(x, y) ==
    x.count < y.count \/ (x.count = y.count /\ PairLess(y.pair, x.pair))

\* the jobs heap.pop() may return: a maximum of the heap
IsTop(h, j) == BagIn(j, h) /\ \A k \in BagToSet(h) : ~JobLess(j, k)

Push(h, j) == h (+) SetToBag({j})
Pop(h, j)  == h (-) SetToBag({j})

\* `if c > 0` / `if cnt > 0`: only a pair with a positive count gets a job
active_off_by_one(c) == c > 1
active(c) == c > 0

\* `for (pair, pos) in map.drain()`: one job pushed for every pair of the
\* drained map whose count is > 0 (the keys of a map are distinct, so are the jobs)
push_jobs_one_short(h, posmap, pcnt) ==
    h (+) SetToBag({[pair |-> k, count |-> pcnt[k] - 1, pos |-> posmap[k]] :
                       k \in {x \in DOMAIN posmap :
                                 x \in DOMAIN pcnt /\ active(pcnt[x])}})
push_jobs(h, posmap, pcnt) ==
    h (+) SetToBag({[pair |-> k, count |-> pcnt[k], pos |-> posmap[k]] :
                       k \in {x \in DOMAIN posmap :
                                 x \in DOMAIN pcnt /\ active(pcnt[x])}})

\* ------------------------------------------------------------ train_core
\* `assert!(vocab_size >= 256, ..)`
vocab_size_ok_strict(v) == v > BASE_VOCAB
vocab_size_ok(v) == v >= BASE_VOCAB

new_id_off_by_one(done) == BASE_VOCAB + done + 1
new_id_of(done) == BASE_VOCAB + done

\* `top.count = current as u64; heap.push(top)`: the job pushed back
refreshed_decrements(top, current) == [top EXCEPT !.count = top.count - 1]
refreshed_without_positions(top, current) == [pair |-> top.pair, count |-> current, pos |-> {}]
refreshed_keeps_count(top, current) == top
refreshed(top, current) == [top EXCEPT !.count = current]

\* The loops below thread an accumulator acc = [pc, lu, ws, ovf] (pair_counts,
\* local_updates, words, some `+=` overflowed).  Each step binds the next accumulator as the one
\* element of a singleton set, so that it is passed on as a value.

\* one `(pair, delta)` of `changes`: the count update and the position update
change_step_unweighted(acc, change, word_idx, word_count) ==
    [pc |-> AddEntry(acc.pc, change[1], change[2]),
     lu |-> IF change[2] > 0 THEN InsertPos(acc.lu, change[1], word_idx) ELSE acc.lu,
     ws |-> acc.ws,
     ovf |-> acc.ovf \/ AddOverflows(acc.pc, change[1], change[2])]
change_step(acc, change, word_idx, word_count) ==
    LET pair  == change[1]
        delta == change[2]
    IN  [pc |-> AddEntry(acc.pc, pair, delta * word_count),
         lu |-> IF delta > 0 THEN InsertPos(acc.lu, pair, word_idx) ELSE acc.lu,
         ws |-> acc.ws,
         ovf |-> acc.ovf \/ AddOverflows(acc.pc, pair, delta * word_count)]

\* `for (pair, delta) in changes` for one word
RECURSIVE apply_changes(_, _, _, _, _)
apply_changes(acc, changes, k, word_idx, word_count) ==
    IF k > Len(changes) THEN acc
    ELSE CHOOSE r \in {apply_changes(nxt, changes, k + 1, word_idx, word_count) :
                         nxt \in {change_step(acc, changes[k], word_idx, word_count)}} :
             TRUE

\* the body of `for &word_idx in &top.pos` for one word
word_step(acc, word_idx, pair, new_id, cs) ==
    LET m == merge_pair(acc.ws[word_idx], pair, new_id)
    IN  CHOOSE r \in {apply_changes([acc EXCEPT !.ws[word_idx] = mv.ids],
                                    mv.deltas, 1, word_idx, cs[word_idx]) :
                         mv \in {m}} : TRUE

\* `for &word_idx in &top.pos`
RECURSIVE update_words(_, _, _, _, _)
update_words(acc, todo, pair, new_id, cs) ==
    IF todo = {} THEN acc
    ELSE LET word_idx == CHOOSE x \in todo : \A y \in todo : x <= y
         IN  CHOOSE r \in {update_words(nxt, rest, pair, new_id, cs) :
                             nxt \in {word_step(acc, word_idx, pair, new_id, cs)},
                             rest \in {todo \ {word_idx}}} : TRUE

\* ------------------------------------------------------- the pretokenizer
\* GPT4_PATTERN over ASCII text; a text is a sequence of bytes.  A branch
\* operator gives the end (exclusive, 1-based) of its match at p, 0 for none.
CR == 13
LF == 10
SPACE == 32
APOSTROPHE == 39

IsLetter(c)  == (65 <= c /\ c <= 90) \/ (97 <= c /\ c <= 122)     \* \p{L}
IsNumber(c)  == 48 <= c /\ c <= 57                                \* \p{N}
IsSpace(c)   == c \in {9, 10, 11, 12, 13, 32}                      \* \s
IsNewline(c) == c \in {CR, LF}                                     \* [\r\n]
IsOther(c)   == ~IsSpace(c) /\ ~IsLetter(c) /\ ~IsNumber(c)       \* [^\s\p{L}\p{N}]
Lower(c)     == IF 65 <= c /\ c <= 90 THEN c + 32 ELSE c          \* (?i:
At(t, p)     == IF 1 <= p /\ p <= Len(t) THEN t[p] ELSE -1

\* the end of the longest run from p of bytes of one class
RunLetters(t, p) ==
    CHOOSE e \in p .. Len(t) + 1 :
        /\ \A i \in p .. e - 1 : IsLetter(t[i])
        /\ (e <= Len(t) => ~IsLetter(t[e]))
RunSpaces(t, p) ==
    CHOOSE e \in p .. Len(t) + 1 :
        /\ \A i \in p .. e - 1 : IsSpace(t[i])
        /\ (e <= Len(t) => ~IsSpace(t[e]))
RunOthers(t, p) ==
    CHOOSE e \in p .. Len(t) + 1 :
        /\ \A i \in p .. e - 1 : IsOther(t[i])
        /\ (e <= Len(t) => ~IsOther(t[e]))
RunNewlines(t, p) ==
    CHOOSE e \in p .. Len(t) + 1 :
        /\ \A i \in p .. e - 1 : IsNewline(t[i])
        /\ (e <= Len(t) => ~IsNewline(t[e]))

\* '(?i:[sdmt]|ll|ve|re)
BranchContraction(t, p) ==
    IF At(t, p) # APOSTROPHE THEN 0
    ELSE LET x == Lower(At(t, p + 1))
             y == Lower(At(t, p + 2))
         IN  IF x \in {115, 100, 109, 116} THEN p + 2
             ELSE IF <<x, y>> \in {<<108, 108>>, <<118, 101>>, <<114, 101>>} THEN p + 3
             ELSE 0

\* [^\r\n\p{L}\p{N}]?+\p{L}+   (the optional prefix is possessive)
BranchLetters(t, p) ==
    LET c == At(t, p)
        q == IF c # -1 /\ ~IsNewline(c) /\ ~IsLetter(c) /\ ~IsNumber(c)
             THEN p + 1 ELSE p
    IN  IF q <= Len(t) /\ IsLetter(t[q]) THEN RunLetters(t, q) ELSE 0

\* \p{N}{1,3}
BranchNumbers(t, p) ==
    IF ~IsNumber(At(t, p)) THEN 0
    ELSE IF ~IsNumber(At(t, p + 1)) THEN p + 1
    ELSE IF ~IsNumber(At(t, p + 2)) THEN p + 2
    ELSE p + 3

\*  ?[^\s\p{L}\p{N}]++[\r\n]*
BranchPunctuation(t, p) ==
    LET q == IF At(t, p) = SPACE /\ At(t, p + 1) # -1 /\ IsOther(At(t, p + 1))
             THEN p + 1 ELSE p
    IN  IF q <= Len(t) /\ IsOther(t[q]) THEN RunNewlines(t, RunOthers(t, q)) ELSE 0

\* \s*[\r\n]   (greedy \s*, backed off to the last newline of the run)
BranchNewline(t, p) ==
    LET e  == RunSpaces(t, p)
        nl == {i \in p .. e - 1 : IsNewline(t[i])}
    IN  IF p > Len(t) \/ nl = {} THEN 0
        ELSE (CHOOSE i \in nl : \A j \in nl : j <= i) + 1

\* \s+(?!\S)   (greedy \s+, backed off by one byte before a non-space)
BranchSpacesBeforeWord(t, p) ==
    LET e == RunSpaces(t, p)
    IN  IF p > Len(t) \/ e = p THEN 0
        ELSE IF e > Len(t) THEN e
        ELSE IF e - 1 > p THEN e - 1
        ELSE 0

\* \s+
BranchSpaces(t, p) ==
    LET e == RunSpaces(t, p)
    IN  IF p > Len(t) \/ e = p THEN 0 ELSE e

\* the alternation: the first branch that matches at p
MatchAt(t, p) ==
    IF BranchContraction(t, p) # 0 THEN BranchContraction(t, p)
    ELSE IF BranchLetters(t, p) # 0 THEN BranchLetters(t, p)
    ELSE IF BranchNumbers(t, p) # 0 THEN BranchNumbers(t, p)
    ELSE IF BranchPunctuation(t, p) # 0 THEN BranchPunctuation(t, p)
    ELSE IF BranchNewline(t, p) # 0 THEN BranchNewline(t, p)
    ELSE IF BranchSpacesBeforeWord(t, p) # 0 THEN BranchSpacesBeforeWord(t, p)
    ELSE BranchSpaces(t, p)

Slice(t, from, to) == [i \in 1 .. to - from |-> t[from + i - 1]]

\* compiled_pattern.find_iter(text): the matches from left to right; a byte
\* at which no branch matches is skipped
RECURSIVE find_iter(_, _)
find_iter(t, p) ==
    IF p > Len(t) THEN <<>>
    ELSE IF MatchAt(t, p) = 0 THEN find_iter(t, p + 1)
    ELSE <<Slice(t, p, MatchAt(t, p))>> \o find_iter(t, MatchAt(t, p))

pretokenize(t) == find_iter(t, 1)

\* chunk.bytes().map(|b| b as u32): an ASCII chunk is its own byte sequence
bytes_of(chunk) == [i \in 1 .. Len(chunk) |-> chunk[i]]

\* ------------------------------------------------- encode: the merge loop
\* `if merge_id < best_merge_id`
lower_or_equal(merge_id, best_merge_id) == merge_id <= best_merge_id
lower(merge_id, best_merge_id) == merge_id < best_merge_id

\* `for i in 0..ids.len() - 1`: best_idx 0 stands for None; i is 1-based
RECURSIVE scan_pairs(_, _, _, _, _)
scan_pairs(ids, m, i, best_idx, best_merge_id) ==
    IF i > Len(ids) - 1 THEN [idx |-> best_idx, id |-> best_merge_id]
    ELSE LET pair == <<ids[i], ids[i + 1]>>
         IN  IF pair \in DOMAIN m /\ lower(m[pair], best_merge_id)
             THEN scan_pairs(ids, m, i + 1, i, m[pair])
             ELSE scan_pairs(ids, m, i + 1, best_idx, best_merge_id)

find_best(ids, m) == scan_pairs(ids, m, 1, 0, U32_MAX)

\* `ids[idx] = best_merge_id; ids.remove(idx + 1)`
rewrite_at(ids, idx, id) ==
    [i \in 1 .. Len(ids) - 1 |->
        IF i < idx THEN ids[i] ELSE IF i = idx THEN id ELSE ids[i + 1]]

\* the `while ids.len() >= 2` loop, run to its end
RECURSIVE merge_loop(_, _)
merge_loop(ids, m) ==
    IF Len(ids) < 2 THEN ids
    ELSE LET best == find_best(ids, m)
         IN  IF best.idx # 0 THEN merge_loop(rewrite_at(ids, best.idx, best.id), m)
             ELSE ids

\* ------------------------------------------------- encode as a function
\* the body of `for m in find_iter(text)` for one chunk
encode_chunk(chunk, m, sp) ==
    IF chunk \in DOMAIN sp THEN <<sp[chunk]>> ELSE merge_loop(bytes_of(chunk), m)

RECURSIVE encode_chunks(_, _, _, _)
encode_chunks(chunks, k, m, sp) ==
    IF k > Len(chunks) THEN <<>>
    ELSE encode_chunk(chunks[k], m, sp) \o encode_chunks(chunks, k + 1, m, sp)

\* Tokenizer::encode
encode(text, m, sp) == encode_chunks(pretokenize(text), 1, m, sp)

\* HashMap::insert
Insert(m, k, v) == IF k \in DOMAIN m THEN [m EXCEPT ![k] = v] ELSE m @@ (k :> v)

\* Tokenizer::vocab_size
vocab_size == BASE_VOCAB + Cardinality(DOMAIN merges)

NoStep == [op |-> "none", pair |-> <<0, 0>>, count |-> 0, pos |-> {}, live |-> Empty]

\* all words over TrainBytes of length 0..MaxWordLen
TrainWords == UNION {[1 .. n -> TrainBytes] : n \in 0 .. MaxWordLen}
\* the (words, counts) arguments of train_core: every corpus of one or two
\* words with multiplicities 1..MaxCount, and some corpora of three words,
\* one of them with a word of multiplicity 0
ExtraCorpora ==
    { << <<98, 97, 97, 98>>, <<97, 97>>, <<97, 98>> >>,
      << <<97, 98, 97, 98>>, <<98, 97>>, <<97, 97, 97>> >>,
      << <<97, 97, 97, 98>>, <<97>>, <<98, 98>> >> }
\* the corpus {"aaaa" x 10, "aaab" x 1}, in either order of the word array
CorpusAaaaAaab ==
    {[ws |-> << <<97, 97, 97, 97>>, <<97, 97, 97, 98>> >>, cs |-> <<10, 1>>],
     [ws |-> << <<97, 97, 97, 98>>, <<97, 97, 97, 97>> >>, cs |-> <<1, 10>>]}
\* corpora with a word of multiplicity 0 that holds a pair of another word
ZeroCountCorpora ==
    {[ws |-> << <<97, 98>>, <<97, 98>> >>, cs |-> <<1, 0>>],
     [ws |-> << <<97, 97, 98>>, <<98, 97, 97>> >>, cs |-> <<0, 2>>]}
TrainInputs ==
    CorpusAaaaAaab \cup ZeroCountCorpora \cup
    {[ws |-> w, cs |-> c] :
        w \in UNION {[1 .. n -> TrainWords] : n \in {1, 2}},
        c \in UNION {[1 .. n -> 1 .. MaxCount] : n \in {1, 2}}}
    \cup {[ws |-> w, cs |-> c] : w \in ExtraCorpora, c \in [1 .. 3 -> 1 .. MaxCount]}
    \cup {[ws |-> w, cs |-> <<1, 0, 1>>] : w \in ExtraCorpora}
VocabSizes == (BASE_VOCAB - 1) .. (BASE_VOCAB + MaxMerges)

\* the callers of encode, and a caller that is not inside encode
Callers == {"c1", "c2"}
IdleCall == [pc |-> "idle", text |-> <<>>, chunks |-> <<>>, k |-> 0,
             ids |-> <<>>, prev |-> <<>>, result |-> <<>>]

\* no encode_batch call in progress
IdleBatch == [pc |-> "idle", texts |-> <<>>, out |-> <<>>, pos |-> <<>>]

\* no round trip in progress; f_merges, f_special are the fields of the fresh
\* tokenizer F, table the map returned by get_merges
IdleTrip == [pc |-> "idle", table |-> <<>>, f_merges |-> <<>>, f_special |-> <<>>,
             text |-> <<>>, t_out |-> <<>>, f_out |-> <<>>]

\* no count_pairs_parallel call in progress
IdleCount == [pc |-> "idle", ws |-> <<>>, cs |-> <<>>, chunk_size |-> 0,
              parts |-> <<>>, result |-> NoMaps]

\* Tokenizer::new
Init ==
    /\ merges = Empty
    /\ special_tokens = Empty
    /\ pc = "idle"
    /\ corpus = <<>>
    /\ words = <<>>
    /\ counts = <<>>
    /\ num_merges = 0
    /\ vocab_arg = 0
    /\ pair_counts = Empty
    /\ heap = EmptyBag
    /\ merges_done = 0
    /\ last = NoStep
    /\ enc = [c \in Callers |-> IdleCall]
    /\ bt = IdleBatch
    /\ rt = IdleTrip
    /\ cp = IdleCount
    /\ overflow_checks = "unobserved"

\* the overflow-checks settings a build can have when an i32 `+=` has (ovf) or
\* has not overflowed: "on" panics at the overflow (the dev profile), "off"
\* wraps (the release profile); the setting is the same for the whole run
Builds(ovf) ==
    IF ovf /\ overflow_checks = "unobserved" THEN {"on", "off"} ELSE {overflow_checks}

\* train_core up to the loop: the assert, the initial count, the heap
TrainCall(ws, cs, v) ==
    /\ pc = "idle"
    /\ corpus' = ws
    /\ counts' = cs
    /\ vocab_arg' = v
    /\ last' = NoStep
    /\ UNCHANGED <<merges, special_tokens, enc, bt, rt, cp>>
    /\ IF ~vocab_size_ok(v)
       THEN /\ pc' = "panicked"
            /\ UNCHANGED <<words, num_merges, pair_counts, heap, merges_done,
                           overflow_checks>>
       ELSE \E c \in {count_pairs_parallel(ws, cs)} :
              \E checks \in Builds(c.ovf) :
                /\ overflow_checks' = checks
                /\ IF c.ovf /\ checks = "on"
                   THEN /\ pc' = "panicked"
                        /\ UNCHANGED <<words, num_merges, pair_counts, heap, merges_done>>
                   ELSE /\ pc' = "loop"
                        /\ words' = ws
                        /\ num_merges' = v - BASE_VOCAB
                        /\ pair_counts' = c.pc
                        /\ heap' = push_jobs(EmptyBag, c.wtu, c.pc)
                        /\ merges_done' = 0

\* a loop iteration whose popped job is stale and is pushed back
StaleRepush ==
    /\ pc = "loop"
    /\ merges_done < num_merges
    /\ \E top \in BagToSet(heap) :
         LET current == GetOr0(pair_counts, top.pair)
         IN  /\ IsTop(heap, top)
             /\ top.count # current
             /\ current > 0
             /\ heap' = Push(Pop(heap, top), refreshed(top, current))
             /\ last' = [op |-> "repush", pair |-> top.pair, count |-> top.count,
                         pos |-> top.pos, live |-> pair_counts]
    /\ UNCHANGED <<merges, special_tokens, pc, corpus, words, counts, num_merges,
                   vocab_arg, pair_counts, merges_done, enc, bt, rt, cp, overflow_checks>>

\* a loop iteration whose popped job is stale and is dropped
StaleDiscard ==
    /\ pc = "loop"
    /\ merges_done < num_merges
    /\ \E top \in BagToSet(heap) :
         LET current == GetOr0(pair_counts, top.pair)
         IN  /\ IsTop(heap, top)
             /\ top.count # current
             /\ current <= 0
             /\ heap' = Pop(heap, top)
             /\ last' = [op |-> "discard", pair |-> top.pair, count |-> top.count,
                         pos |-> top.pos, live |-> pair_counts]
    /\ UNCHANGED <<merges, special_tokens, pc, corpus, words, counts, num_merges,
                   vocab_arg, pair_counts, merges_done, enc, bt, rt, cp, overflow_checks>>

\* a loop iteration that records a merge and applies it
ApplyMerge ==
    /\ pc = "loop"
    /\ merges_done < num_merges
    /\ \E top \in BagToSet(heap) :
         LET current == GetOr0(pair_counts, top.pair)
             new_id  == new_id_of(merges_done)
         IN  /\ IsTop(heap, top)
             /\ top.count = current
             /\ merges' = Insert(merges, top.pair, new_id)
             /\ \E upd \in {update_words([pc |-> pair_counts, lu |-> Empty,
                                           ws |-> words, ovf |-> FALSE],
                                          top.pos, top.pair, new_id, counts)} :
                  \E checks \in Builds(upd.ovf) :
                    /\ overflow_checks' = checks
                    /\ IF upd.ovf /\ checks = "on"
                       THEN /\ pc' = "panicked"
                            /\ last' = [op |-> "overflow", pair |-> top.pair,
                                        count |-> top.count, pos |-> top.pos,
                                        live |-> pair_counts]
                            /\ UNCHANGED <<words, pair_counts, heap, merges_done>>
                       ELSE /\ words' = upd.ws
                            /\ pair_counts' = upd.pc
                            /\ heap' = push_jobs(Pop(heap, top), upd.lu, upd.pc)
                            /\ merges_done' = merges_done + 1
                            /\ last' = [op |-> "apply", pair |-> top.pair,
                                        count |-> top.count, pos |-> top.pos,
                                        live |-> pair_counts]
                            /\ pc' = pc
    /\ UNCHANGED <<special_tokens, corpus, counts, num_merges, vocab_arg, enc, bt, rt, cp>>

\* the loop ends: merges_done reached num_merges, or heap.pop() gave None
TrainExit ==
    /\ pc = "loop"
    /\ merges_done >= num_merges \/ heap = EmptyBag
    /\ pc' = "done"
    /\ UNCHANGED <<merges, special_tokens, corpus, words, counts, num_merges,
                   vocab_arg, pair_counts, heap, merges_done, last, enc, bt, rt, cp, overflow_checks>>

Train ==
    /\ pc = "idle"
    /\ \E in \in TrainInputs : \E v \in VocabSizes :
         /\ Len(in.ws) = Len(in.cs)
         /\ TrainCall(in.ws, in.cs, v)

Next ==
    \/ Train
    \/ StaleRepush
    \/ StaleDiscard
    \/ ApplyMerge
    \/ TrainExit

Spec == Init /\ [][Next]_vars

\* train_core on corpora whose multiplicities range over the positive i32:
\* 1, 2^30 and i32::MAX
WideCounts == {1, 1073741824, I32_MAX}
WideInputs ==
    {[ws |-> w, cs |-> c] :
        w \in UNION {[1 .. n -> TrainWords] : n \in {1, 2}},
        c \in UNION {[1 .. n -> WideCounts] : n \in {1, 2}}}

TrainWide ==
    /\ pc = "idle"
    /\ \E in \in WideInputs : \E v \in VocabSizes :
         /\ Len(in.ws) = Len(in.cs)
         /\ TrainCall(in.ws, in.cs, v)

WideNext ==
    \/ TrainWide
    \/ StaleRepush
    \/ StaleDiscard
    \/ ApplyMerge
    \/ TrainExit

WideSpec == Init /\ [][WideNext]_vars

\* train_core is straight-line sequential code: an iteration of its loop that
\* can be taken is taken
LiveSpec ==
    /\ Spec
    /\ WF_vars(StaleRepush)
    /\ WF_vars(StaleDiscard)
    /\ WF_vars(ApplyMerge)
    /\ WF_vars(TrainExit)

\* ------------------------------------------------------------- encode
\* texts given to encode
TxtEmpty  == <<>>                                   \* ""
TxtA      == <<65>>                                 \* "A"
TxtThe    == <<116, 104, 101>>                      \* "the"
TxtOther  == <<111, 116, 104, 101, 114>>            \* "other"
TxtPad    == <<60, 80, 65, 68, 62>>                 \* "<PAD>"
TxtXPadY  == <<120, 60, 80, 65, 68, 62, 121>>       \* "x<PAD>y"
TxtAaab   == <<97, 97, 97, 98>>                     \* "aaab"
TxtAbAa   == <<97, 98, 32, 97, 97>>                 \* "ab aa"
TxtX      == <<120>>                                \* "x"
EncTexts  == {TxtEmpty, TxtA, TxtThe, TxtOther, TxtPad, TxtXPadY, TxtAaab, TxtAbAa,
              TxtX}

\* register_special_token arguments
PAD_ID == 50000
SpecialArgs == {<<TxtPad, PAD_ID>>, <<TxtX, PAD_ID + 1>>}

\* load_merges arguments: every table of at most MaxTableSize entries over
\* LoadPairs and LoadIds, and the table of "th" then "the"
LoadPairs == {<<97, 97>>, <<97, 98>>, <<256, 97>>}
LoadIds   == {256, 257, U32_MAX}
TableThe  == (<<116, 104>> :> 256) @@ (<<256, 101>> :> 257)
LoadTables ==
    {TableThe} \cup
    UNION {[D -> LoadIds] : D \in {X \in SUBSET LoadPairs : Cardinality(X) <= MaxTableSize}}

\* `result`, `ids` and the match iterator are locals of the call of caller c
SetCall_shared_result(c, r) ==
    enc' = [x \in Callers |-> IF x = c THEN r ELSE [enc[x] EXCEPT !.result = r.result]]
SetCall(c, r) == enc' = [enc EXCEPT ![c] = r]
AllIdle == bt.pc = "idle" /\ \A c \in Callers : enc[c].pc = "idle"

\* register_special_token (&mut self: no encode call is in progress)
RegisterSpecial(token, id) ==
    /\ AllIdle
    /\ special_tokens' = Insert(special_tokens, token, id)
    /\ UNCHANGED <<merges, train_locals, enc, bt, rt, cp, overflow_checks>>

\* load_merges (&mut self)
LoadMerges(table) ==
    /\ AllIdle
    /\ merges' = table
    /\ UNCHANGED <<special_tokens, train_locals, enc, bt, rt, cp, overflow_checks>>

\* encode is entered: the result vector, the iterator over the matches
EncodeCall(c, text) ==
    /\ enc[c].pc = "idle"
    /\ SetCall(c, [IdleCall EXCEPT !.pc = "chunk", !.text = text,
                                   !.chunks = pretokenize(text), !.k = 1])
    /\ UNCHANGED <<merges, special_tokens, train_locals, bt, rt, cp, overflow_checks>>

\* the next chunk is a key of special_tokens: its id is pushed
EncodeSpecial(c) ==
    /\ enc[c].pc = "chunk"
    /\ enc[c].k <= Len(enc[c].chunks)
    /\ enc[c].chunks[enc[c].k] \in DOMAIN special_tokens
    /\ SetCall(c, [enc[c] EXCEPT
                      !.result = Append(@, special_tokens[enc[c].chunks[enc[c].k]]),
                      !.k = @ + 1])
    /\ UNCHANGED <<merges, special_tokens, train_locals, bt, rt, cp, overflow_checks>>

\* the next chunk is no special token: its bytes become ids
EncodeBytes(c) ==
    /\ enc[c].pc = "chunk"
    /\ enc[c].k <= Len(enc[c].chunks)
    /\ enc[c].chunks[enc[c].k] \notin DOMAIN special_tokens
    /\ SetCall(c, [enc[c] EXCEPT !.pc = "merge",
                                 !.ids = bytes_of(enc[c].chunks[enc[c].k]),
                                 !.prev = <<>>])
    /\ UNCHANGED <<merges, special_tokens, train_locals, bt, rt, cp, overflow_checks>>

\* an iteration of the while loop that finds a merge and rewrites ids
EncodeMerge(c) ==
    /\ enc[c].pc = "merge"
    /\ Len(enc[c].ids) >= 2
    /\ find_best(enc[c].ids, merges).idx # 0
    /\ SetCall(c, [enc[c] EXCEPT
                      !.prev = enc[c].ids,
                      !.ids = rewrite_at(enc[c].ids, find_best(enc[c].ids, merges).idx,
                                         find_best(enc[c].ids, merges).id)])
    /\ UNCHANGED <<merges, special_tokens, train_locals, bt, rt, cp, overflow_checks>>

\* the while loop ends: ids is shorter than 2, or no merge was found
EncodeBreak(c) ==
    /\ enc[c].pc = "merge"
    /\ Len(enc[c].ids) < 2 \/ find_best(enc[c].ids, merges).idx = 0
    /\ SetCall(c, [enc[c] EXCEPT !.pc = "emit"])
    /\ UNCHANGED <<merges, special_tokens, train_locals, bt, rt, cp, overflow_checks>>

\* result.extend(ids)
EncodeEmit(c) ==
    /\ enc[c].pc = "emit"
    /\ SetCall(c, [enc[c] EXCEPT !.pc = "chunk", !.result = @ \o enc[c].ids,
                                 !.ids = <<>>, !.prev = <<>>, !.k = @ + 1])
    /\ UNCHANGED <<merges, special_tokens, train_locals, bt, rt, cp, overflow_checks>>

\* the matches are exhausted: encode returns result
EncodeReturn(c) ==
    /\ enc[c].pc = "chunk"
    /\ enc[c].k > Len(enc[c].chunks)
    /\ SetCall(c, [enc[c] EXCEPT !.pc = "done"])
    /\ UNCHANGED <<merges, special_tokens, train_locals, bt, rt, cp, overflow_checks>>

\* the caller has taken the returned vector
EncodeTaken(c) ==
    /\ enc[c].pc = "done"
    /\ SetCall(c, IdleCall)
    /\ UNCHANGED <<merges, special_tokens, train_locals, bt, rt, cp, overflow_checks>>

Register == \E a \in SpecialArgs : RegisterSpecial(a[1], a[2])
Load     == \E t \in LoadTables : LoadMerges(t)
Call     == \E c \in Callers : \E t \in EncTexts : EncodeCall(c, t)
Special  == \E c \in Callers : EncodeSpecial(c)
Bytes    == \E c \in Callers : EncodeBytes(c)
Merge    == \E c \in Callers : EncodeMerge(c)
Break    == \E c \in Callers : EncodeBreak(c)
Emit     == \E c \in Callers : EncodeEmit(c)
Return   == \E c \in Callers : EncodeReturn(c)
Taken    == \E c \in Callers : EncodeTaken(c)

EncNext ==
    \/ Register
    \/ Load
    \/ Call
    \/ Special
    \/ Bytes
    \/ Merge
    \/ Break
    \/ Emit
    \/ Return
    \/ Taken

\* a tokenizer whose tables are set by load_merges and register_special_token
\* and whose encode is called by two callers at once
EncSpec == Init /\ [][EncNext]_vars

\* -------------------------------------------------------- encode_batch
\* the texts of a batch: BatchTexts repeated, n of them
BatchTexts == <<TxtThe, TxtOther, TxtAaab>>
BatchOf(n) == [i \in 1 .. n |-> BatchTexts[(i % Len(BatchTexts)) + 1]]
BatchSizes ==
    {0, 1, 3, BATCH_PARALLEL_MIN - 1, BATCH_PARALLEL_MIN, BATCH_PARALLEL_MIN + 1}
Batches == {BatchOf(n) : n \in BatchSizes}
TableAa == (<<97, 97>> :> 258) @@ (<<258, 97>> :> 259)
BatchTables == {TableThe @@ TableAa}

\* the worker threads, and the slice of 1..n that worker w maps
Workers == 1 .. NumThreads
SliceLo(w, n) == ((w - 1) * n) \div NumThreads + 1
SliceHi(w, n) == (w * n) \div NumThreads
Unset == <<-1>>

\* `.collect()` of an indexed parallel iterator: the result of item i is
\* written to slot i of the vector
collect_reversed(out, i, r) == [out EXCEPT ![Len(out) + 1 - i] = r]
collect_slot(out, i, r) == [out EXCEPT ![i] = r]

\* encode_batch is entered and takes the sequential or the parallel path
BatchCall(texts) ==
    /\ bt.pc = "idle"
    /\ bt' = IF Len(texts) < BATCH_PARALLEL_MIN
             THEN [pc |-> "seq", texts |-> texts, out |-> <<>>, pos |-> <<>>]
             ELSE [pc |-> "par", texts |-> texts,
                   out |-> [i \in 1 .. Len(texts) |-> Unset],
                   pos |-> [w \in Workers |-> SliceLo(w, Len(texts))]]
    /\ UNCHANGED <<merges, special_tokens, train_locals, enc, rt, cp, overflow_checks>>

\* texts.into_iter().map(|t| self.encode(t)).collect(): the next item
BatchSeqStep ==
    /\ bt.pc = "seq"
    /\ Len(bt.out) < Len(bt.texts)
    /\ bt' = [bt EXCEPT !.out = Append(@, encode(bt.texts[Len(bt.out) + 1],
                                                  merges, special_tokens))]
    /\ UNCHANGED <<merges, special_tokens, train_locals, enc, rt, cp, overflow_checks>>

\* texts.par_iter().map(|t| self.encode(t)).collect(): worker w maps its next item
BatchParStep(w) ==
    /\ bt.pc = "par"
    /\ bt.pos[w] <= SliceHi(w, Len(bt.texts))
    /\ bt' = [bt EXCEPT !.out = collect_slot(@, bt.pos[w],
                                             encode(bt.texts[bt.pos[w]],
                                                    merges, special_tokens)),
                        !.pos[w] = @ + 1]
    /\ UNCHANGED <<merges, special_tokens, train_locals, enc, rt, cp, overflow_checks>>

\* encode_batch returns the collected vector
BatchReturn ==
    /\ \/ bt.pc = "seq" /\ Len(bt.out) = Len(bt.texts)
       \/ bt.pc = "par" /\ \A w \in Workers : bt.pos[w] > SliceHi(w, Len(bt.texts))
    /\ bt' = [bt EXCEPT !.pc = "done"]
    /\ UNCHANGED <<merges, special_tokens, train_locals, enc, rt, cp, overflow_checks>>

\* the caller has taken the returned vector
BatchTaken ==
    /\ bt.pc = "done"
    /\ bt' = IdleBatch
    /\ UNCHANGED <<merges, special_tokens, train_locals, enc, rt, cp, overflow_checks>>

BatchLoad    == \E t \in BatchTables : LoadMerges(t)
BatchStart   == \E b \in Batches : BatchCall(b)
BatchParWork == \E w \in Workers : BatchParStep(w)

BatchNext ==
    \/ BatchLoad
    \/ BatchStart
    \/ BatchSeqStep
    \/ BatchParWork
    \/ BatchReturn
    \/ BatchTaken

\* a tokenizer with a loaded table whose encode_batch is called
BatchSpec == Init /\ [][BatchNext]_vars

\* ------------------------------------- get_merges / load_merges round trip
\* Tokenizer::get_merges: a clone of the merge table
get_merges_byte_pairs_only(m) == [p \in {q \in DOMAIN m : q[1] < BASE_VOCAB} |-> m[p]]
get_merges(m) == m

\* T.get_merges()
TripExport ==
    /\ rt.pc = "idle"
    /\ AllIdle
    /\ rt' = [IdleTrip EXCEPT !.pc = "exported", !.table = get_merges(merges)]
    /\ UNCHANGED <<merges, special_tokens, train_locals, enc, bt, cp, overflow_checks>>

\* F = Tokenizer::new()
TripNew ==
    /\ rt.pc = "exported"
    /\ rt' = [rt EXCEPT !.pc = "fresh", !.f_merges = Empty, !.f_special = Empty]
    /\ UNCHANGED <<merges, special_tokens, train_locals, enc, bt, cp, overflow_checks>>

\* F.load_merges(table)
TripLoad ==
    /\ rt.pc = "fresh"
    /\ rt' = [rt EXCEPT !.pc = "loaded", !.f_merges = rt.table]
    /\ UNCHANGED <<merges, special_tokens, train_locals, enc, bt, cp, overflow_checks>>

\* F.register_special_token(token, id)
TripRegister(token, id) ==
    /\ rt.pc = "loaded"
    /\ rt' = [rt EXCEPT !.f_special = Insert(@, token, id)]
    /\ UNCHANGED <<merges, special_tokens, train_locals, enc, bt, cp, overflow_checks>>

\* T.encode(text) and F.encode(text)
TripEncode(text) ==
    /\ rt.pc = "loaded"
    /\ rt' = [rt EXCEPT !.pc = "compared", !.text = text,
                        !.t_out = encode(text, merges, special_tokens),
                        !.f_out = encode(text, rt.f_merges, rt.f_special)]
    /\ UNCHANGED <<merges, special_tokens, train_locals, enc, bt, cp, overflow_checks>>

\* F is dropped
TripEnd ==
    /\ rt.pc = "compared"
    /\ rt' = IdleTrip
    /\ UNCHANGED <<merges, special_tokens, train_locals, enc, bt, cp, overflow_checks>>

\* T is set up before the round trip starts
TripSetLoad       == rt.pc = "idle" /\ \E t \in LoadTables : LoadMerges(t)
TripSetRegister   == rt.pc = "idle" /\ \E a \in SpecialArgs : RegisterSpecial(a[1], a[2])
TripFreshRegister == \E a \in SpecialArgs : TripRegister(a[1], a[2])
TripCompare       == \E t \in EncTexts : TripEncode(t)

TripNext ==
    \/ TripSetLoad
    \/ TripSetRegister
    \/ TripExport
    \/ TripNew
    \/ TripLoad
    \/ TripFreshRegister
    \/ TripCompare
    \/ TripEnd

\* a tokenizer T whose merge table is exported into a fresh tokenizer F
TripSpec == Init /\ [][TripNext]_vars

\* ------------------------------------ count_pairs_parallel as a reduction
\* words.par_chunks(chunk_size).enumerate().map(..).reduce(identity, op):
\* the chunks are mapped by the workers in any order; a mapped chunk is
\* folded into a fresh identity, and neighbouring partial results are
\* combined, left operand first, in any grouping.
CountWords == {<<97>>, <<97, 97>>, <<97, 98>>, <<97, 97, 98>>}
CountCounts == {<<1, 2, 1, 1>>, <<2, 0, 1, 2>>}
CountInputs ==
    {[ws |-> w, cs |-> [i \in 1 .. Len(w) |-> c[((i - 1) % Len(c)) + 1]]] :
        w \in UNION {[1 .. n -> CountWords] : n \in {3, MaxChunkWords}},
        c \in CountCounts}
ChunkSizes == 1 .. MaxChunkSize

\* the number of chunks par_chunks(chunk_size) yields for n words
NumChunks(n, chunk_size) == (n + chunk_size - 1) \div chunk_size

\* the map closure for chunk chunk_idx (0-based): the words base_idx + offset
map_chunk(ws, cs, chunk_idx, chunk_size) ==
    LET base_idx == chunk_idx * chunk_size
        hi == IF base_idx + chunk_size < Len(ws) THEN base_idx + chunk_size ELSE Len(ws)
    IN  count_range(NoMaps, ws, cs, base_idx + 1, hi)

\* parts without its element j + 1, element j replaced by x
Combine(parts, j, x) ==
    [i \in 1 .. Len(parts) - 1 |->
        IF i < j THEN parts[i] ELSE IF i = j THEN x ELSE parts[i + 1]]

CountCall(in, chunk_size) ==
    /\ cp.pc = "idle"
    /\ cp' = [pc |-> "reduce", ws |-> in.ws, cs |-> in.cs, chunk_size |-> chunk_size,
              parts |-> [j \in 1 .. NumChunks(Len(in.ws), chunk_size) |->
                            [st |-> "chunk", chunk_idx |-> j - 1, maps |-> NoMaps]],
              result |-> NoMaps]
    /\ UNCHANGED <<merges, special_tokens, train_locals, enc, bt, rt, overflow_checks>>

\* a worker runs the map closure on chunk j
CountMap(j) ==
    /\ cp.pc = "reduce"
    /\ j \in DOMAIN cp.parts
    /\ cp.parts[j].st = "chunk"
    /\ cp' = [cp EXCEPT !.parts[j] =
                 [st |-> "mapped", chunk_idx |-> cp.parts[j].chunk_idx,
                  maps |-> map_chunk(cp.ws, cp.cs,
                                     cp.parts[j].chunk_idx, cp.chunk_size)]]
    /\ UNCHANGED <<merges, special_tokens, train_locals, enc, bt, rt, overflow_checks>>

\* op(identity(), item): a mapped chunk starts a partial result
CountFold(j) ==
    /\ cp.pc = "reduce"
    /\ j \in DOMAIN cp.parts
    /\ cp.parts[j].st = "mapped"
    /\ cp' = [cp EXCEPT !.parts[j] =
                 [st |-> "acc", chunk_idx |-> cp.parts[j].chunk_idx,
                  maps |-> reduce_maps(NoMaps, cp.parts[j].maps)]]
    /\ UNCHANGED <<merges, special_tokens, train_locals, enc, bt, rt, overflow_checks>>

\* op(left, right) on two neighbours, the left one a partial result
CountReduce(j) ==
    /\ cp.pc = "reduce"
    /\ j \in DOMAIN cp.parts
    /\ j + 1 \in DOMAIN cp.parts
    /\ cp.parts[j].st = "acc"
    /\ cp.parts[j + 1].st \in {"mapped", "acc"}
    /\ cp' = [cp EXCEPT !.parts =
                 Combine(cp.parts, j,
                         [st |-> "acc", chunk_idx |-> cp.parts[j].chunk_idx,
                          maps |-> reduce_maps(cp.parts[j].maps, cp.parts[j + 1].maps)])]
    /\ UNCHANGED <<merges, special_tokens, train_locals, enc, bt, rt, overflow_checks>>

\* reduce returns the one partial result left (the identity for no chunk)
CountReturn ==
    /\ cp.pc = "reduce"
    /\ \/ Len(cp.parts) = 0
       \/ Len(cp.parts) = 1 /\ cp.parts[1].st = "acc"
    /\ cp' = [cp EXCEPT !.pc = "done",
                        !.result = IF Len(cp.parts) = 0 THEN NoMaps ELSE cp.parts[1].maps]
    /\ UNCHANGED <<merges, special_tokens, train_locals, enc, bt, rt, overflow_checks>>

\* the caller has taken the maps
CountTaken ==
    /\ cp.pc = "done"
    /\ cp' = IdleCount
    /\ UNCHANGED <<merges, special_tokens, train_locals, enc, bt, rt, overflow_checks>>

CountStart ==
    /\ cp.pc = "idle"
    /\ \E in \in CountInputs : \E k \in ChunkSizes : CountCall(in, k)
CountMapAny    == \E j \in 1 .. MaxChunkWords : CountMap(j)
CountFoldAny   == \E j \in 1 .. MaxChunkWords : CountFold(j)
CountReduceAny == \E j \in 1 .. MaxChunkWords : CountReduce(j)

CountNext ==
    \/ CountStart
    \/ CountMapAny
    \/ CountFoldAny
    \/ CountReduceAny
    \/ CountReturn
    \/ CountTaken

\* the parallel initial count on its own
CountSpec == Init /\ [][CountNext]_vars

\* ===================================================================
\* Properties of train_core
\* ===================================================================
Keys(m) == DOMAIN m
Ids(m)  == {m[p] : p \in DOMAIN m}

WordPairs(ids) == {pairs(ids)[j] : j \in DOMAIN pairs(ids)}

\* the adjacent pairs of the current words of positive multiplicity
LivePairs ==
    UNION {WordPairs(words[i]) : i \in {k \in DOMAIN words : counts[k] > 0}}

\* C1: after train_core on a fresh tokenizer with vocab_size V >= 256 the merge
\* table holds exactly merges_done distinct pairs, merges_done <= V - 256, its
\* ids are exactly 256 .. 256 + merges_done - 1, and vocab_size() is
\* 256 + merges_done.
C1_MergeTableContiguous ==
    pc \in {"loop", "done"} =>
        /\ Cardinality(Keys(merges)) = merges_done
        /\ merges_done <= vocab_arg - BASE_VOCAB
        /\ Ids(merges) = BASE_VOCAB .. (BASE_VOCAB + merges_done - 1)
        /\ vocab_size = BASE_VOCAB + merges_done

C1_Witness == pc = "done" /\ merges_done = MaxMerges /\ Len(corpus) = 2

\* C2: when a merge is recorded for pair p, the live count of p is positive,
\* no pair has a larger live count, and p is the smallest pair among those
\* whose live count equals that of p.
C2_MergedPairIsMax ==
    last.op = "apply" =>
        /\ GetOr0(last.live, last.pair) > 0
        /\ \A q \in DOMAIN last.live :
              /\ last.live[q] <= GetOr0(last.live, last.pair)
              /\ (q # last.pair /\ last.live[q] = GetOr0(last.live, last.pair))
                    => PairLess(last.pair, q)

C2_Witness ==
    /\ last.op = "apply"
    /\ merges_done >= 2
    /\ \E q \in DOMAIN last.live :
          q # last.pair /\ last.live[q] = GetOr0(last.live, last.pair)

\* C3: train_core stops with fewer than V - 256 merges only when no adjacent
\* pair of the current words of positive multiplicity is left with a
\* positive live count; with V > 256 and a word of length >= 2 of positive
\* multiplicity at least one merge is recorded and vocab_size() has grown.
C3_StopsOnlyWhenExhausted ==
    pc = "done" =>
        /\ merges_done <= num_merges
        /\ merges_done < num_merges =>
              /\ \A p \in LivePairs : GetOr0(pair_counts, p) <= 0
              /\ \A p \in DOMAIN pair_counts : pair_counts[p] <= 0
              /\ LivePairs = {}
        /\ (vocab_arg > BASE_VOCAB
              /\ \E i \in DOMAIN corpus : Len(corpus[i]) >= 2 /\ counts[i] > 0)
             => (merges_done >= 1 /\ vocab_size > BASE_VOCAB)

C3_Witness ==
    pc = "done" /\ merges_done >= 1 /\ merges_done < num_merges /\ Len(corpus) = 2

\* C4: the loop of train_core terminates (a re-pushed stale job cannot cycle
\* for ever), and it ends with at most V - 256 merges recorded: with exactly
\* V - 256, or with the heap empty.
C4_LoopTerminates ==
    /\ (pc = "loop") ~> (pc = "done")
    /\ [](pc = "done" =>
             /\ merges_done <= num_merges
             /\ merges_done = num_merges \/ heap = EmptyBag)

C4_Witness == pc = "loop" /\ last.op = "repush" /\ merges_done >= 1

\* C5: after training, the encoder's merge loop with the resulting table,
\* run on the original bytes of a training word of positive multiplicity,
\* gives the ids the trainer holds for that word.
C5_EncoderAgreesWithTrainer ==
    pc = "done" =>
        \A i \in DOMAIN corpus :
            counts[i] > 0 => merge_loop(corpus[i], merges) = words[i]

C5_Witness ==
    /\ pc = "done"
    /\ merges_done >= 2
    /\ \E i \in DOMAIN corpus : counts[i] > 0 /\ Len(words[i]) + 2 <= Len(corpus[i])

\* C12: training with vocab_size < 256 fails before anything is inserted into
\* the merge table (the table is unchanged); training with vocab_size = 256
\* does not fail, runs no merge iteration and leaves the merge table empty.
C12_PreconditionOnVocabSize ==
    /\ [](pc = "panicked" => vocab_arg < BASE_VOCAB /\ merges = Empty)
    /\ []((pc # "idle" /\ vocab_arg < BASE_VOCAB) => pc = "panicked")
    /\ []((pc # "idle" /\ vocab_arg = BASE_VOCAB) =>
             /\ pc \in {"loop", "done"}
             /\ num_merges = 0
             /\ merges_done = 0
             /\ last.op = "none"
             /\ merges = Empty)
    /\ [][pc' = "panicked" => merges' = merges]_vars

C12_Witness ==
    /\ pc = "done"
    /\ vocab_arg = BASE_VOCAB
    /\ heap # EmptyBag
    /\ merges = Empty

\* C13: training on {"aaaa" x 10, "aaab" x 1} with V = 258: (97,97) has the
\* highest initial count, the first merge is (97,97) -> 256, and the second
\* merge is the same on every run: (256,256) -> 257.
C13_ScenarioAaaaAaab ==
    ([ws |-> corpus, cs |-> counts] \in CorpusAaaaAaab
        /\ vocab_arg = BASE_VOCAB + 2 /\ pc \in {"loop", "done"}) =>
        /\ merges_done = 0 =>
              \A q \in DOMAIN pair_counts :
                  q # <<97, 97>> => pair_counts[q] < GetOr0(pair_counts, <<97, 97>>)
        /\ merges_done = 1 => merges = (<<97, 97>> :> BASE_VOCAB)
        /\ merges_done = 2 =>
              merges = (<<97, 97>> :> BASE_VOCAB) @@
                       (<<BASE_VOCAB, BASE_VOCAB>> :> BASE_VOCAB + 1)
        /\ pc = "done" => merges_done = 2

C13_Witness ==
    /\ [ws |-> corpus, cs |-> counts] \in CorpusAaaaAaab
    /\ vocab_arg = BASE_VOCAB + 2
    /\ pc = "done"
    /\ merges_done = 2
    /\ words \in {<< <<BASE_VOCAB + 1>>, <<BASE_VOCAB, 97, 98>> >>,
                  << <<BASE_VOCAB, 97, 98>>, <<BASE_VOCAB + 1>> >>}

\* the number of adjacent occurrences of p in ids
Occurrences(ids, p) ==
    Cardinality({j \in 1 .. Len(ids) - 1 : ids[j] = p[1] /\ ids[j + 1] = p[2]})

\* a full recount of p over the words ws with multiplicities cs, from word i on
RECURSIVE RecountFrom(_, _, _, _)
RecountFrom(ws, cs, p, i) ==
    IF i > Len(ws) THEN 0
    ELSE cs[i] * Occurrences(ws[i], p) + RecountFrom(ws, cs, p, i + 1)
Recount(ws, cs, p) == RecountFrom(ws, cs, p, 1)

\* every pair of some current word
AllWordPairs == UNION {WordPairs(words[i]) : i \in DOMAIN words}

\* C14: after the initial count and after every completed merge iteration,
\* pair_counts[p] (0 when absent) equals the full recount of p over the
\* current words: the sum over i of c[i] times the occurrences of p in words[i].
C14_PairCountsExact ==
    (pc \in {"loop", "done"} /\ last.op \in {"none", "apply"}) =>
        \A p \in DOMAIN pair_counts \cup AllWordPairs :
            GetOr0(pair_counts, p) = Recount(words, counts, p)

C14_Witness ==
    /\ pc = "loop"
    /\ last.op = "apply"
    /\ merges_done >= 2
    /\ \E i \in DOMAIN counts : counts[i] >= 2 /\ words[i] # corpus[i]
    /\ \E p \in DOMAIN pair_counts : pair_counts[p] = 0
    /\ \E p \in DOMAIN pair_counts : pair_counts[p] >= 2

\* C15 as stated: whenever a merge is applied for pair p, the popped job's
\* position snapshot contains every word index whose current id sequence
\* contains p; after the iteration no word of positive multiplicity contains
\* p and pair_counts[p] is exactly 0.
C15_SnapshotCoversEveryWord ==
    /\ [][merges_done' = merges_done + 1 =>
             \A i \in DOMAIN words :
                 last'.pair \in WordPairs(words[i]) => i \in last'.pos]_vars
    /\ [](last.op = "apply" =>
             /\ \A i \in DOMAIN words :
                   counts[i] > 0 => last.pair \notin WordPairs(words[i])
             /\ last.pair \in DOMAIN pair_counts
             /\ pair_counts[last.pair] = 0)

\* C15 amended: the snapshot contains every word index of non-zero
\* multiplicity whose current id sequence contains p (a word of multiplicity
\* 0 is skipped by the initial count and is in no snapshot); the rest as stated.
C15_SnapshotCoversCountedWords ==
    /\ [][merges_done' = merges_done + 1 =>
             \A i \in DOMAIN words :
                 (counts[i] # 0 /\ last'.pair \in WordPairs(words[i]))
                     => i \in last'.pos]_vars
    /\ [](last.op = "apply" =>
             /\ \A i \in DOMAIN words :
                   counts[i] > 0 => last.pair \notin WordPairs(words[i])
             /\ last.pair \in DOMAIN pair_counts
             /\ pair_counts[last.pair] = 0)

C15_Witness ==
    /\ last.op = "apply"
    /\ merges_done >= 1
    /\ \E i \in DOMAIN words : counts[i] = 0 /\ last.pair \in WordPairs(words[i])
    /\ \E i \in last.pos : Len(words[i]) < Len(corpus[i])

\* the jobs of the heap for pair p
JobsOf(p) == {j \in BagToSet(heap) : j.pair = p}
\* the word indices whose current id sequence contains p
Holders(p) == {i \in DOMAIN words : p \in WordPairs(words[i])}

\* C16 as stated: after each merge application, for every pair p with
\* pair_count[p] > 0 the position set of p's heap job is exactly the set of
\* word indices whose current id sequence contains p, and no word index is in
\* the position set of a pair that is not an adjacent pair of that word.
C16_PositionsExact ==
    last.op = "apply" =>
        /\ \A p \in DOMAIN pair_counts :
              pair_counts[p] > 0 =>
                  /\ JobsOf(p) # {}
                  /\ \A j \in JobsOf(p) : j.pos = Holders(p)
        /\ \A j \in BagToSet(heap) : j.pos \subseteq Holders(j.pair)

\* C16 amended: after the initial count and after each merge application,
\* every pair p with pair_count[p] > 0 has a heap job, and the position set
\* of each job of p contains every word index of non-zero multiplicity whose
\* current id sequence contains p (it may also hold stale indices).
C16_PositionsCoverHolders ==
    pc \in {"loop", "done"} =>
        \A jobs \in {BagToSet(heap)} :
            /\ \A p \in DOMAIN pair_counts :
                  pair_counts[p] > 0 => \E j \in jobs : j.pair = p
            /\ \A j \in jobs :
                  GetOr0(pair_counts, j.pair) > 0 =>
                      \A i \in DOMAIN words :
                          (counts[i] # 0 /\ Occurrences(words[i], j.pair) > 0)
                              => i \in j.pos

C16_Witness ==
    /\ last.op \in {"apply", "repush"}
    /\ merges_done >= 1
    /\ \E j \in BagToSet(heap) :
          /\ GetOr0(pair_counts, j.pair) > 0
          /\ j.count = pair_counts[j.pair]
          /\ Holders(j.pair) # {}
          /\ j.pos # Holders(j.pair)

\* the sum of cs[i] over the indices i >= k of the words that contain p
RECURSIVE SumOverHolders(_, _, _, _)
SumOverHolders(ws, cs, p, k) ==
    IF k > Len(ws) THEN 0
    ELSE (IF p \in WordPairs(ws[k]) THEN cs[k] ELSE 0) + SumOverHolders(ws, cs, p, k + 1)

\* the pairs of the words passed to train_core, and the indices holding p
CorpusPairs == UNION {WordPairs(corpus[i]) : i \in DOMAIN corpus}
CorpusHolders(p) == {i \in DOMAIN corpus : p \in WordPairs(corpus[i])}

\* C17 as stated: after initial construction of the pair index, for every
\* pair p present in any word, pair_count[p] is the sum of c[i] over the word
\* indices i whose id sequence contains p, pair_positions[p] is exactly that
\* set of indices, and the maps have no entry for a pair that is in no word.
\* The maps are read where train_core leaves them on entering its loop:
\* pair_counts, and pair_positions[p] moved into the pos of the job of p.
C17_InitialIndexPerWord ==
    (pc = "loop" /\ merges_done = 0 /\ last.op = "none") =>
        /\ \A p \in CorpusPairs :
              /\ p \in DOMAIN pair_counts
              /\ pair_counts[p] = SumOverHolders(corpus, counts, p, 1)
              /\ \E j \in JobsOf(p) : j.pos = CorpusHolders(p)
        /\ DOMAIN pair_counts \subseteq CorpusPairs
        /\ \A j \in BagToSet(heap) : j.pair \in CorpusPairs

\* C17 amended: pair_count[p] is the sum over i of c[i] times the number of
\* occurrences of p in words[i]; pair_positions[p] is exactly the set of the
\* indices of non-zero multiplicity whose word contains p; the maps have an
\* entry exactly for the pairs of the words of non-zero multiplicity; and
\* train_core enters its loop with these counts and one job per pair of
\* positive count.
C17_InitialIndexPerOccurrence ==
    (pc = "loop" /\ merges_done = 0 /\ last.op = "none") =>
        \A counted \in {UNION {WordPairs(corpus[i]) :
                                  i \in {k \in DOMAIN corpus : counts[k] # 0}}} :
            /\ DOMAIN pair_counts = counted
            /\ \A p \in counted :
                  pair_counts[p] = Recount(corpus, counts, p)
            /\ BagToSet(heap) =
                  {[pair |-> p, count |-> pair_counts[p],
                    pos |-> {i \in CorpusHolders(p) : counts[i] # 0}] :
                      p \in {q \in counted : pair_counts[q] > 0}}
            /\ \A j \in BagToSet(heap) : CopiesIn(j, heap) = 1

C17_Witness ==
    /\ pc = "loop"
    /\ merges_done = 0
    /\ last.op = "none"
    /\ \E p \in DOMAIN pair_counts :
          /\ Cardinality(CorpusHolders(p)) = 2
          /\ \E i \in CorpusHolders(p) : Occurrences(corpus[i], p) >= 2 /\ counts[i] >= 2
          /\ pair_counts[p] > SumOverHolders(corpus, counts, p, 1)

\* position i of ids starts a replaced occurrence of p under the greedy
\* left-to-right, non-overlapping rule: p is at i and i - 1 starts none
RECURSIVE IsStart(_, _, _)
IsStart(ids, p, i) ==
    /\ i >= 1
    /\ i + 1 <= Len(ids)
    /\ ids[i] = p[1]
    /\ ids[i + 1] = p[2]
    /\ ~IsStart(ids, p, i - 1)
Starts(ids, p) == {i \in 1 .. Len(ids) : IsStart(ids, p, i)}
\* the positions that survive: those that are not the second id of a start
KeptPositions(ids, p) == {i \in 1 .. Len(ids) : ~IsStart(ids, p, i - 1)}
GreedyReplace(ids, p, new_id) ==
    [k \in 1 .. Cardinality(KeptPositions(ids, p)) |->
        LET i == CHOOSE x \in KeptPositions(ids, p) :
                     Cardinality({y \in KeptPositions(ids, p) : y < x}) = k - 1
        IN  IF IsStart(ids, p, i) THEN new_id ELSE ids[i]]

\* C19: merge_pair rewrites a word by the greedy left-to-right,
\* non-overlapping replacement of (a,b) by new_id (x x x becomes new_id x);
\* the length decreases by exactly the number of replaced occurrences; a word
\* without an occurrence, or shorter than 2, is unchanged and yields no deltas.
C19_MergePairIsGreedy ==
    [][merges_done' = merges_done + 1 =>
         \A i \in DOMAIN words :
             /\ IF i \in last'.pos
                THEN /\ words'[i] = GreedyReplace(words[i], last'.pair, merges'[last'.pair])
                     /\ Len(words'[i]) =
                           Len(words[i]) - Cardinality(Starts(words[i], last'.pair))
                ELSE words'[i] = words[i]
             /\ (last'.pair \notin WordPairs(words[i]) \/ Len(words[i]) < 2) =>
                   /\ words'[i] = words[i]
                   /\ merge_pair(words[i], last'.pair, merges'[last'.pair]) =
                         [ids |-> words[i], deltas |-> <<>>]]_vars

C19_Witness ==
    /\ last.op = "apply"
    /\ last.pair = <<97, 97>>
    /\ merges_done = 1
    /\ \E i \in last.pos : corpus[i] = <<97, 97, 97>> /\ words[i] = <<BASE_VOCAB, 97>>
    /\ \E i \in last.pos : corpus[i] = <<97, 97, 97, 97>>
                              /\ words[i] = <<BASE_VOCAB, BASE_VOCAB>>

\* the job popped by the iteration just taken, as recorded in last
PoppedJob(l) == [pair |-> l.pair, count |-> l.count, pos |-> l.pos]

\* C20: when the popped job's cached count differs from the live count of
\* its pair, no merge is recorded and merges_done, the merge table, the words
\* and pair_counts are unchanged; the job is pushed back with the live count
\* (same pair and positions) if the live count is positive and is dropped if
\* it is <= 0.  A job is applied only when its cached count equals the live count.
C20_LazyValidationFrame ==
    [][(pc = "loop" /\ (last' # last \/ heap' # heap)) =>
         LET top  == PoppedJob(last')
             live == GetOr0(pair_counts, top.pair)
         IN  /\ BagIn(top, heap)
             /\ top.count # live =>
                   /\ merges' = merges
                   /\ merges_done' = merges_done
                   /\ words' = words
                   /\ pair_counts' = pair_counts
                   /\ live > 0 =>
                         heap' = (heap (-) SetToBag({top}))
                                    (+) SetToBag({[pair |-> top.pair, count |-> live,
                                                   pos |-> top.pos]})
                   /\ live <= 0 => heap' = heap (-) SetToBag({top})
             /\ (merges' # merges \/ merges_done' # merges_done
                   \/ words' # words \/ pair_counts' # pair_counts) => top.count = live
             /\ top.count = live =>
                   /\ merges_done' = merges_done + 1
                   /\ top.pair \in DOMAIN merges']_vars

C20_Witness ==
    /\ pc = "loop"
    /\ last.op = "discard"
    /\ merges_done >= 2
    /\ last.count >= 2
    /\ GetOr0(pair_counts, last.pair) = 0
    /\ heap # EmptyBag

\* an exact sum of non-negative terms, kept while it fits i32: fits is FALSE
\* once the mathematical sum has passed i32::MAX
NoSum == [sum |-> 0, fits |-> TRUE]
AddExact(r, t) ==
    IF ~r.fits \/ r.sum > I32_MAX - t THEN [sum |-> 0, fits |-> FALSE]
    ELSE [sum |-> r.sum + t, fits |-> TRUE]

\* t added n times
RECURSIVE AddTimes(_, _, _)
AddTimes(r, t, n) == IF n = 0 THEN r ELSE AddTimes(AddExact(r, t), t, n - 1)

\* the exact recount of p over the words ws with multiplicities cs: cs[i] for
\* every occurrence of p in ws[i], from word i on
RECURSIVE ExactRecountFrom(_, _, _, _, _)
ExactRecountFrom(ws, cs, p, i, r) ==
    IF i > Len(ws) THEN r
    ELSE ExactRecountFrom(ws, cs, p, i + 1, AddTimes(r, cs[i], Occurrences(ws[i], p)))
ExactRecount(ws, cs, p) == ExactRecountFrom(ws, cs, p, 1, NoSum)

\* C21: for a corpus whose word multiplicities are positive i32 values, no
\* `+=` on a pair count overflows (train_core does not panic on one), and
\* after the initial count and after every applied merge every stored
\* pair_count value (0 when absent) is the exact mathematical sum of c[i] over
\* the occurrences of the pair in the current words: it fits the counter and
\* is not a wrapped value.
C21_PairCountNeverOverflows ==
    /\ pc = "panicked" => ~vocab_size_ok(vocab_arg)
    /\ overflow_checks = "unobserved"
    /\ (pc \in {"loop", "done"} /\ last.op \in {"none", "apply"}) =>
          \A p \in DOMAIN pair_counts \cup AllWordPairs :
              \A r \in {ExactRecount(words, counts, p)} :
                  r.fits /\ GetOr0(pair_counts, p) = r.sum

\* C22: whenever train_core is about to pop, every job in the heap has a
\* cached count greater than or equal to the live pair_count of its pair and
\* every pair of positive live count has at least one job in the heap; and no
\* loop iteration increases the live count of a pair that has a job in the
\* heap.
C22_LazyHeapInvariant ==
    /\ [](pc = "loop" =>
            \A jobs \in {BagToSet(heap)} :
                /\ \A j \in jobs : j.count >= GetOr0(pair_counts, j.pair)
                /\ \A p \in DOMAIN pair_counts :
                      pair_counts[p] > 0 => \E j \in jobs : j.pair = p)
    /\ [][pc = "loop" =>
            \A j \in BagToSet(heap) :
                GetOr0(pair_counts', j.pair) <= GetOr0(pair_counts, j.pair)]_vars

\* a pop with a stale job whose pair is still live, next to a current job of
\* a pair made by an earlier merge
C22_Witness ==
    /\ pc = "loop"
    /\ merges_done >= 1
    /\ merges_done < num_merges
    /\ \E j \in BagToSet(heap) :
          /\ j.count > GetOr0(pair_counts, j.pair)
          /\ GetOr0(pair_counts, j.pair) > 0
    /\ \E j \in BagToSet(heap) :
          /\ j.pair[1] >= BASE_VOCAB \/ j.pair[2] >= BASE_VOCAB
          /\ j.count = pair_counts[j.pair]

\* ===================================================================
\* Properties of encode and encode_batch
\* ===================================================================
\* the positions of ids whose adjacent pair is a key of the merge table
Applicable(ids, m) == {i \in 1 .. Len(ids) - 1 : <<ids[i], ids[i + 1]>> \in DOMAIN m}
MinMergeId(ids, m) ==
    CHOOSE x \in {m[<<ids[i], ids[i + 1]>>] : i \in Applicable(ids, m)} :
        \A i \in Applicable(ids, m) : x <= m[<<ids[i], ids[i + 1]>>]
LeftmostMin(ids, m) ==
    CHOOSE i \in Applicable(ids, m) :
        /\ m[<<ids[i], ids[i + 1]>>] = MinMergeId(ids, m)
        /\ \A j \in Applicable(ids, m) :
              m[<<ids[j], ids[j + 1]>>] = MinMergeId(ids, m) => i <= j
Rewritten(ids, m) ==
    SubSeq(ids, 1, LeftmostMin(ids, m) - 1) \o <<MinMergeId(ids, m)>>
        \o SubSeq(ids, LeftmostMin(ids, m) + 2, Len(ids))

\* the rewriting half of C6: an iteration that rewrites ids replaces the
\* leftmost pair of minimum merge id by that id and keeps the rest in order
RewriteIsMinLeftmost ==
    \A c \in Callers :
        (enc[c].pc = "merge" /\ enc[c].prev # <<>>) =>
            /\ Applicable(enc[c].prev, merges) # {}
            /\ enc[c].ids = Rewritten(enc[c].prev, merges)

\* C6: each iteration of the encoder's loop selects, among the adjacent pairs
\* of ids that are keys of the merge table, the pair of minimum merge id,
\* leftmost on ties, and rewrites it: ids[i] becomes the merge id, ids[i+1]
\* is removed, the rest keeps its order.  (An iteration at which such a pair
\* exists therefore rewrites; the loop ends only when there is none.)
C6_StepSelectsMinLeftmost ==
    \A c \in Callers :
        /\ (enc[c].pc = "merge" /\ enc[c].prev # <<>>) =>
              /\ Applicable(enc[c].prev, merges) # {}
              /\ enc[c].ids = Rewritten(enc[c].prev, merges)
        /\ enc[c].pc = "emit" => Applicable(enc[c].ids, merges) = {}

\* C7: for any merge table, also one installed by load_merges with
\* arbitrary u32 ids, the ids emitted for a chunk that is no special token
\* hold no adjacent pair that is a key of the merge table.
C7_EmittedIsFixpoint ==
    \A c \in Callers :
        enc[c].pc = "emit" =>
            \A i \in 1 .. Len(enc[c].ids) - 1 :
                <<enc[c].ids[i], enc[c].ids[i + 1]>> \notin DOMAIN merges

\* C8: encode_batch(xs) has the length of xs and its i-th element is
\* encode(xs[i]), below and from the threshold of the parallel path on.
C8_BatchMatchesEncode ==
    bt.pc = "done" =>
        /\ Len(bt.out) = Len(bt.texts)
        /\ \A i \in DOMAIN bt.texts :
              bt.out[i] = encode(bt.texts[i], merges, special_tokens)

C8_Witness ==
    /\ bt.pc = "done"
    /\ Len(bt.texts) > BATCH_PARALLEL_MIN
    /\ merges # Empty
    /\ bt.out[1] # bt.out[2]

\* C9: encode is a function of (merge table, special-token table, text):
\* a call returns encode(text) whatever other calls are interleaved with
\* it, two calls with the same text return the same ids, and the steps of
\* encode leave both tables unchanged.
C9_EncodeIsPure ==
    /\ [](\A c \in Callers :
             enc[c].pc = "done" =>
                 enc[c].result = encode(enc[c].text, merges, special_tokens))
    /\ [](\A c, d \in Callers :
             (enc[c].pc = "done" /\ enc[d].pc = "done" /\ enc[c].text = enc[d].text)
                 => enc[c].result = enc[d].result)
    /\ [][enc' # enc => (merges' = merges /\ special_tokens' = special_tokens)]_vars

C9_Witness ==
    /\ enc["c1"].pc = "done"
    /\ enc["c2"].pc = "done"
    /\ enc["c1"].text = enc["c2"].text
    /\ Len(enc["c1"].result) < Len(enc["c1"].text)
    /\ merges # Empty

\* the general half of C10: a call whose chunks are all keys of the
\* special-token table returns exactly their ids
SpecialChunkIsOneId ==
    \A c \in Callers :
        (enc[c].pc = "done"
           /\ \A k \in DOMAIN enc[c].chunks : enc[c].chunks[k] \in DOMAIN special_tokens)
        => enc[c].result =
             [k \in DOMAIN enc[c].chunks |-> special_tokens[enc[c].chunks[k]]]

\* C10: with "<PAD>" registered as 50000, encode("<PAD>") is [50000] and
\* encode("x<PAD>y") holds 50000 exactly once; a chunk that equals a
\* special-token key is emitted as that one id.
C10_PadIsOneId ==
    \A c \in Callers :
        /\ (enc[c].pc = "done" /\ TxtPad \in DOMAIN special_tokens
               /\ special_tokens[TxtPad] = PAD_ID) =>
              /\ enc[c].text = TxtPad => enc[c].result = <<PAD_ID>>
              /\ enc[c].text = TxtXPadY =>
                    Cardinality({i \in DOMAIN enc[c].result :
                                    enc[c].result[i] = PAD_ID}) = 1
        /\ (enc[c].pc = "done"
               /\ \A k \in DOMAIN enc[c].chunks :
                     enc[c].chunks[k] \in DOMAIN special_tokens)
            => enc[c].result =
                 [k \in DOMAIN enc[c].chunks |-> special_tokens[enc[c].chunks[k]]]

\* ===================================================================
\* Properties of the get_merges / load_merges round trip
\* ===================================================================
\* C11 as stated: for any tokenizer T, a fresh tokenizer F on which
\* load_merges(T.get_merges()) has been called (and nothing else) returns
\* F.encode(x) = T.encode(x) for every text x.
C11_RoundTripAnyTokenizer ==
    (rt.pc = "compared" /\ rt.f_special = Empty) => rt.f_out = rt.t_out

\* C11 amended: F holds the merge table of T, and F.encode(x) = T.encode(x)
\* for every text x whenever the special-token table of F equals that of T
\* (both empty, or the same tokens registered on F).
C11_RoundTripSameSpecials ==
    /\ rt.pc \in {"loaded", "compared"} => rt.f_merges = merges
    /\ (rt.pc = "compared" /\ rt.f_special = special_tokens) => rt.f_out = rt.t_out

C11_Witness ==
    /\ rt.pc = "compared"
    /\ rt.f_special = special_tokens
    /\ special_tokens # Empty
    /\ rt.text = TxtThe
    /\ rt.f_out = <<257>>

\* ===================================================================
\* Properties of the parallel initial count
\* ===================================================================
\* C18: for every word array and multiplicity vector, every chunk size and
\* every order in which the per-chunk results are mapped and reduced, the
\* parallel count returns the same pair counts and the same position sets
\* (global word indices) as count_pairs_sequential.
C18_ParallelCountMatchesSequential ==
    cp.pc = "done" =>
        /\ cp.result.pc = count_pairs_sequential(cp.ws, cp.cs).pc
        /\ cp.result.wtu = count_pairs_sequential(cp.ws, cp.cs).wtu

C18_Witness ==
    /\ cp.pc = "done"
    /\ Len(cp.ws) = MaxChunkWords
    /\ cp.chunk_size = 1
    /\ \E p \in DOMAIN cp.result.wtu :
          /\ 1 \in cp.result.wtu[p]
          /\ Len(cp.ws) \in cp.result.wtu[p]
          /\ cp.result.pc[p] >= 3

====
